---------------------------- MODULE Spec2Model ----------------------------
(***************************************************************************)
(* A model of process_all.py: for each of five fixed file names, collect   *)
(* the matching CSV files under the script directory (optionally only      *)
(* under the folders named by -c), merge them onto HEADER_LIST, collapse   *)
(* the rows by Title with a count, sort by count and copy the result into  *)
(* the output folder.                                                      *)
(*                                                                         *)
(* A CSV file on disk is a record                                          *)
(*     [exists, header, rows, bad]                                         *)
(* header is the first line, rows the data lines (each a tuple of cells,   *)
(* by position, as in the file), and bad says that reading the file        *)
(* raises once the rows listed have been read (rows = << >> and bad: the   *)
(* open itself, or the first read, fails).  Cells are opaque text tokens;  *)
(* the count cell of a deduplicated file is a number.  Text that pandas    *)
(* would re-format as a number is outside the token domain.                *)
(***************************************************************************)
EXTENDS Integers, Sequences, FiniteSets, TLC

VARIABLES
    fs,          \* the CSV files under the script directory, by <<folder path, name>>
    arg,         \* args.companies: the value of -c
    tie,         \* how the build's quicksort orders rows of equal count
    pc,          \* per pass: the statement of process_all it is at
    todo,        \* per pass: the patterns still to process, current one first
    run,         \* which invocation of the script this is
    allowed,     \* process_all's allowed: [given, names]
    out_folder,  \* process_all's out_folder
    files,       \* merge_csv_files' sorted file list of the latest merge
    tmp_csv,     \* temp_output.csv
    final_csv,   \* final_output.csv
    exit_code,   \* -1 while running, else the process's exit status
    first_out,   \* history: the destination files as the previous invocation left them
    interfered   \* history: per pass, another pass wrote an intermediate file it still needs

vars == <<fs, arg, tie, pc, todo, run, allowed, out_folder, files, tmp_csv,
          final_csv, exit_code, first_out, interfered>>

-----------------------------------------------------------------------------
(* Bounds of the model *)

\* data rows per input file
MaxRows == 2

\* successive invocations of the script on the same tree
MaxRuns == 2

\* passes run side by side in SpecPar
NumWorkers == 2

-----------------------------------------------------------------------------
(* Sequences *)

Range(s) == {s[i] : i \in 1..Len(s)}

RECURSIVE Flatten(_)
Flatten(ss) == IF ss = << >> THEN << >> ELSE Head(ss) \o Flatten(Tail(ss))

RECURSIVE Repeat(_, _)
Repeat(x, n) == IF n = 0 THEN << >> ELSE <<x>> \o Repeat(x, n - 1)

SeqsUpTo(S, n) == UNION {[1..k -> S] : k \in 0..n}

Perms(n) == {f \in [1..n -> 1..n] : \A i, j \in 1..n : i # j => f[i] # f[j]}

-----------------------------------------------------------------------------
(* The fixed names of the program *)

HEADER_LIST == <<"Difficulty", "Title", "Frequency", "Acceptance Rate", "Link", "Topics">>

patterns == <<"1. Thirty Days.csv", "2. Three Months.csv", "3. Six Months.csv",
              "4. More Than Six Months.csv", "5. All.csv">>

AllFolder == "__all_companies_compiled"

CustomFolder == "__custom_companies_compiled"

\* os.path.splitext(pattern)[0]
Splitext(pattern) ==
    CASE pattern = "1. Thirty Days.csv" -> "1. Thirty Days"
      [] pattern = "2. Three Months.csv" -> "2. Three Months"
      [] pattern = "3. Six Months.csv" -> "3. Six Months"
      [] pattern = "4. More Than Six Months.csv" -> "4. More Than Six Months"
      [] pattern = "5. All.csv" -> "5. All"

\* f"{base_name}.csv"
OutName(base_name) ==
    CASE base_name = "1. Thirty Days" -> "1. Thirty Days.csv"
      [] base_name = "2. Three Months" -> "2. Three Months.csv"
      [] base_name = "3. Six Months" -> "3. Six Months.csv"
      [] base_name = "4. More Than Six Months" -> "4. More Than Six Months.csv"
      [] base_name = "5. All" -> "5. All.csv"

-----------------------------------------------------------------------------
(* The file system *)

\* The folders of the model, as paths from the script directory, in the
\* order Python's sorted() gives the paths of one file name inside them
\* ("Alpha/1..." < "Alpha/Beta/1..." < "Beta/1..." < "__all.../1..." <
\* "__custom.../1..."): digits sort before capitals, capitals before "_".
DirOrder == << <<"Alpha">>, <<"Alpha", "Beta">>, <<"Beta">>,
               <<AllFolder>>, <<CustomFolder>> >>

Dirs == Range(DirOrder)

Paths == Dirs \X Range(patterns)

NoFile == [exists |-> FALSE, header |-> << >>, rows |-> << >>, bad |-> FALSE]

CsvFile(header, rows) == [exists |-> TRUE, header |-> header, rows |-> rows, bad |-> FALSE]

\* a file system F maps the paths of the files that exist to their content
File(F, path) == IF path \in DOMAIN F THEN F[path] ELSE NoFile

\* open(path, "w") ... close(), or shutil.copy(..., path)
Write(F, path, f) == [q \in DOMAIN F \cup {path} |-> IF q = path THEN f ELSE F[q]]


-----------------------------------------------------------------------------
(* The -c argument *)

\* args.companies is absent, or a string that is not the path of a file
\* (cells: the text between its commas), or the path of a file (cells: the
\* first cell of each of its lines, "" for a blank line).
NoArg == [kind |-> "none", cells |-> << >>]

Inline(cells) == [kind |-> "inline", cells |-> cells]

FromFile(cells) == [kind |-> "file", cells |-> cells]

\* str.strip() on the tokens of the model
Strip(x) ==
    CASE x = " " -> ""
      [] x = " Beta " -> "Beta"
      [] OTHER -> x

None == [given |-> FALSE, names |-> {}]

SetOf(names) == [given |-> TRUE, names |-> names]

\* Python's truth value of allowed: None and set() are both false
Truthy(a) == a.given /\ a.names # {}

load_companies_from_file(cells) ==
    SetOf({Strip(cells[i]) : i \in {j \in 1..Len(cells) : Strip(cells[j]) # ""}})

parse_companies_arg(a) ==
    IF a.kind = "none" \/ (a.kind = "inline" /\ a.cells = <<"">>)
    THEN None
    ELSE IF a.kind = "file"
         THEN load_companies_from_file(a.cells)
         ELSE SetOf({Strip(a.cells[i]) : i \in {j \in 1..Len(a.cells) : Strip(a.cells[j]) # ""}})

-----------------------------------------------------------------------------
(* Collector: glob.glob(..., recursive=True) and sorted() *)

\* glob.has_magic on the tokens of the model
HasMagic(d) == d = "*"

\* fnmatch of a top-level folder name against the first component of the
\* glob pattern os.path.join(d, "**", pattern); no folder of the model is hidden
Fnmatch(d, name) == IF HasMagic(d) THEN TRUE ELSE d = name

\* how many times the scan of the allowed folders finds a file of folder dir
Hits(dir, a) ==
    IF Truthy(a)
    THEN Cardinality({d \in a.names : Fnmatch(d, dir[1])})
    ELSE 1

\* files = sorted(files): every existing file named pattern, once per scan
\* that finds it
Collect(F, pattern, a) ==
    Flatten([i \in 1..Len(DirOrder) |->
               IF File(F, <<DirOrder[i], pattern>>).exists
               THEN Repeat(<<DirOrder[i], pattern>>, Hits(DirOrder[i], a))
               ELSE << >>])

-----------------------------------------------------------------------------
(* Merger *)

\* csv.DictReader's row as looked up by row.get(col, ""): the cell under
\* the last header cell named col; a row shorter than the header has None
\* there and a header without col gives the default, and csv.writer writes
\* both as the empty string.
Get(header, cells, col) ==
    LET at == {i \in 1..Len(header) : header[i] = col}
    IN  IF at = {} THEN ""
        ELSE LET i == CHOOSE k \in at : \A m \in at : m <= k
             IN  IF i <= Len(cells) THEN cells[i] ELSE ""

\* as Project, had the cells been taken by position (csv.reader) instead of
\* by column name
ProjectByPosition(header, cells) ==
    [k \in 1..Len(HEADER_LIST) |-> IF k <= Len(cells) THEN cells[k] ELSE ""]

\* [row.get(col, "") for col in HEADER_LIST]
Project(header, cells) == [k \in 1..Len(HEADER_LIST) |-> Get(header, cells, HEADER_LIST[k])]

\* the rows one source file adds to the output: the rows read before an
\* error, if any, was raised
Appended(f) == [j \in 1..Len(f.rows) |-> Project(f.header, f.rows[j])]

\* as merge_csv_files, had the output been opened with "a" instead of "w"
merge_csv_files_Append(F, fileList) ==
    CsvFile(HEADER_LIST,
            tmp_csv.rows \o Flatten([i \in 1..Len(fileList) |-> Appended(File(F, fileList[i]))]))

merge_csv_files(F, fileList) ==
    CsvFile(HEADER_LIST, Flatten([i \in 1..Len(fileList) |-> Appended(File(F, fileList[i]))]))

-----------------------------------------------------------------------------
(* Deduplicator *)

\* fields = reader.fieldnames or HEADER_LIST: a file with no first line has
\* no fieldnames
Fields(f) == IF f.header = << >> THEN HEADER_LIST ELSE f.header

\* the position in title_map (a dict, which keeps insertion order) of the
\* entry of title t, 0 when there is none; an entry is its cells followed
\* by its count
Find(title_map, titleAt, t) ==
    LET at == {i \in 1..Len(title_map) : title_map[i][titleAt] = t}
    IN  IF at = {} THEN 0 ELSE CHOOSE i \in at : TRUE

\* as Tally, had a later row of a title replaced the entry's cells
RECURSIVE TallyLastWins(_, _, _)
TallyLastWins(title_map, fields, rest) ==
    IF rest = << >> THEN title_map
    ELSE LET row == Head(rest)
             titleAt == CHOOSE k \in 1..Len(fields) :
                          /\ fields[k] = "Title"
                          /\ \A m \in 1..Len(fields) : fields[m] = "Title" => m <= k
             countAt == Len(fields) + 1
             t == Get(fields, row, "Title")
             i == Find(title_map, titleAt, t)
             entry == [k \in 1..Len(fields) |-> Get(fields, row, fields[k])]
         IN  IF i # 0
             THEN TallyLastWins([title_map EXCEPT ![i] = entry \o <<@[countAt] + 1>>],
                                fields, Tail(rest))
             ELSE TallyLastWins(Append(title_map, entry \o <<1>>), fields, Tail(rest))

\* the loop over reader: count up the entry of a title seen before, add an
\* entry with count 1 for a new one
RECURSIVE Tally(_, _, _)
Tally(title_map, fields, rest) ==
    IF rest = << >> THEN title_map
    ELSE LET row == Head(rest)
             titleAt == CHOOSE k \in 1..Len(fields) :
                          /\ fields[k] = "Title"
                          /\ \A m \in 1..Len(fields) : fields[m] = "Title" => m <= k
             countAt == Len(fields) + 1
             t == Get(fields, row, "Title")
             i == Find(title_map, titleAt, t)
             entry == [k \in 1..Len(fields) |-> Get(fields, row, fields[k])] \o <<1>>
         IN  IF i # 0
             THEN Tally([title_map EXCEPT ![i][countAt] = @ + 1], fields, Tail(rest))
             ELSE Tally(Append(title_map, entry), fields, Tail(rest))

\* the check of line 155: without a Title column the process exits with 1
\* before anything is written
HasTitle(f) == "Title" \in Range(Fields(f))

\* the file merge_duplicates writes when the Title column is there
merge_duplicates(f) ==
    CsvFile(Fields(f) \o <<"count">>, Tally(<< >>, Fields(f), f.rows))

-----------------------------------------------------------------------------
(* Ranker *)

\* the text pandas.read_csv reads as a missing value, which to_csv writes
\* as the empty string
NaValues == {"", "#N/A", "N/A", "NA", "NULL", "NaN", "None", "n/a", "nan", "null"}

PandasValue(v) == IF v \in NaValues THEN "" ELSE v

\* pd.read_csv followed by to_csv on one row: the count cell is a number
ReadWrite(header, cells) ==
    [k \in 1..Len(cells) |->
        IF k <= Len(header) /\ header[k] = "count" THEN cells[k] ELSE PandasValue(cells[k])]

\* the titles a file of the model can hold, so the most rows a
\* deduplicated file has
TitleValues == {"Two Sum", "LRU Cache", ""}

\* the orders of equal keys a build's sort may produce: sort_values is
\* called without kind, so with quicksort, which promises no order among
\* rows of equal count; a build puts row i before row j of the same count
\* when tie[i] < tie[j] (the identity is the stable order)
TieOrders == Perms(Cardinality(TitleValues))

\* df.sort_values("count", ascending=False, inplace=True)
SortValues(header, rows, t) ==
    LET n == Len(rows)
        countAt == CHOOSE k \in 1..Len(header) : header[k] = "count"
        Before(i, j) == \/ rows[i][countAt] > rows[j][countAt]
                        \/ rows[i][countAt] = rows[j][countAt] /\ t[i] < t[j]
        order == CHOOSE s \in Perms(n) : \A a, b \in 1..n : a < b => Before(s[a], s[b])
    IN  [a \in 1..n |-> rows[order[a]]]

sort_by_count(f, t) ==
    CsvFile(f.header,
            SortValues(f.header, [i \in 1..Len(f.rows) |-> ReadWrite(f.header, f.rows[i])], t))

-----------------------------------------------------------------------------
(* process_all *)

\* the pass of the script itself; the passes of SpecPar are 1..NumWorkers
Main == 1

\* the pattern a pass is processing
Pattern(w) == Head(todo[w])

\* dest = os.path.join(master, out_name)
Dest(folder, pattern) == <<<<folder>>, OutName(Splitext(pattern))>>

\* history: the passes other than w that lose a file they still need when
\* w writes temp_output.csv (tmp) or final_output.csv
Hurt(w, tmp) ==
    [v \in DOMAIN pc |->
        \/ interfered[v]
        \/ /\ v # w
           /\ IF tmp THEN pc[v] = "dedup" ELSE pc[v] \in {"sort", "copy"}]

\* lines 186-210: parse the filter, choose and create the output folder,
\* enter the loop over patterns
Start(w) ==
    /\ pc[w] = "start"
    /\ allowed' = parse_companies_arg(arg)
    /\ out_folder' = IF Truthy(allowed') THEN CustomFolder ELSE AllFolder
    /\ todo' = [todo EXCEPT ![w] = patterns]
    /\ pc' = [pc EXCEPT ![w] = "merge"]
    /\ UNCHANGED <<fs, arg, tie, run, files, tmp_csv, final_csv, exit_code,
                   first_out, interfered>>

\* line 218: merge_csv_files(pattern, tmp_csv, allowed)
MergeCsvFiles(w) ==
    /\ pc[w] = "merge"
    /\ files' = Collect(fs, Pattern(w), allowed)
    /\ tmp_csv' = merge_csv_files(fs, files')
    /\ pc' = [pc EXCEPT ![w] = "dedup"]
    /\ interfered' = Hurt(w, TRUE)
    /\ UNCHANGED <<fs, arg, tie, todo, run, allowed, out_folder, final_csv,
                   exit_code, first_out>>

\* as MergeDuplicates, had the missing Title column ended the function with
\* return instead of sys.exit(1)
MergeDuplicatesReturn(w) ==
    /\ pc[w] = "dedup"
    /\ final_csv' = IF HasTitle(tmp_csv) THEN merge_duplicates(tmp_csv) ELSE final_csv
    /\ pc' = [pc EXCEPT ![w] = "sort"]
    /\ interfered' = Hurt(w, FALSE)
    /\ UNCHANGED <<fs, arg, tie, todo, run, allowed, out_folder, files, tmp_csv,
                   exit_code, first_out>>

\* line 219: merge_duplicates(tmp_csv, final_csv); sys.exit(1) ends the
\* process before final_output.csv is opened
MergeDuplicates(w) ==
    /\ pc[w] = "dedup"
    /\ IF HasTitle(tmp_csv)
       THEN /\ final_csv' = merge_duplicates(tmp_csv)
            /\ pc' = [pc EXCEPT ![w] = "sort"]
            /\ interfered' = Hurt(w, FALSE)
            /\ UNCHANGED exit_code
       ELSE /\ exit_code' = 1
            /\ pc' = [v \in DOMAIN pc |-> "exited"]
            /\ UNCHANGED <<final_csv, interfered>>
    /\ UNCHANGED <<fs, arg, tie, todo, run, allowed, out_folder, files, tmp_csv,
                   first_out>>

\* line 220: sort_by_count(final_csv)
SortByCount(w) ==
    /\ pc[w] = "sort"
    /\ final_csv' = sort_by_count(final_csv, tie)
    /\ pc' = [pc EXCEPT ![w] = "copy"]
    /\ interfered' = Hurt(w, FALSE)
    /\ UNCHANGED <<fs, arg, tie, todo, run, allowed, out_folder, files, tmp_csv,
                   exit_code, first_out>>

\* as Copy, had a pattern without any file been skipped
CopyUnlessEmpty(w) ==
    /\ pc[w] = "copy"
    /\ fs' = IF files = << >> THEN fs
             ELSE Write(fs, Dest(out_folder, Pattern(w)), final_csv)
    /\ todo' = [todo EXCEPT ![w] = Tail(@)]
    /\ pc' = [pc EXCEPT ![w] = IF Tail(todo[w]) = << >> THEN "done" ELSE "merge"]
    /\ exit_code' = IF \A v \in DOMAIN pc : pc'[v] = "done" THEN 0 ELSE exit_code
    /\ UNCHANGED <<arg, tie, run, allowed, out_folder, files, tmp_csv, final_csv,
                   first_out, interfered>>

\* lines 222-228: copy final_output.csv to the output folder and go on to
\* the next pattern; after the last one the script returns, and the
\* process exits with 0 once every pass has
Copy(w) ==
    /\ pc[w] = "copy"
    /\ fs' = Write(fs, Dest(out_folder, Pattern(w)), final_csv)
    /\ todo' = [todo EXCEPT ![w] = Tail(@)]
    /\ pc' = [pc EXCEPT ![w] = IF Tail(todo[w]) = << >> THEN "done" ELSE "merge"]
    /\ exit_code' = IF \A v \in DOMAIN pc : pc'[v] = "done" THEN 0 ELSE exit_code
    /\ UNCHANGED <<arg, tie, run, allowed, out_folder, files, tmp_csv, final_csv,
                   first_out, interfered>>

\* the script is run again on the tree as it now is, with the same argument
Rerun ==
    /\ pc[Main] = "done"
    /\ run < MaxRuns
    /\ run' = run + 1
    /\ pc' = [pc EXCEPT ![Main] = "start"]
    /\ exit_code' = -1
    /\ first_out' = fs
    /\ UNCHANGED <<fs, arg, tie, todo, allowed, out_folder, files, tmp_csv,
                   final_csv, interfered>>

-----------------------------------------------------------------------------
(* The inputs *)

FullHeader == HEADER_LIST

\* columns out of order, four missing, one unknown
PartHeader == <<"Title", "Extra", "Difficulty">>

\* no Title column
BareHeader == <<"Difficulty", "Link">>

RowKinds == {[title |-> "Two Sum", difficulty |-> "Easy"],
             [title |-> "Two Sum", difficulty |-> "Hard"],
             [title |-> "LRU Cache", difficulty |-> "NA"]}

Cell(col, kind) ==
    CASE col = "Title" -> kind.title
      [] col = "Difficulty" -> kind.difficulty
      [] col = "Frequency" -> "often"
      [] col = "Acceptance Rate" -> "half"
      [] col = "Link" -> "url"
      [] col = "Topics" -> "Array"
      [] OTHER -> "x"

Render(header, kind) == [k \in 1..Len(header) |-> Cell(header[k], kind)]

SourceFiles(headers, n, bads) ==
    {[exists |-> TRUE, header |-> h, rows |-> [i \in 1..Len(ks) |-> Render(h, ks[i])],
      bad |-> b] : h \in headers, ks \in SeqsUpTo(RowKinds, n), b \in bads}

OneRow == CHOOSE f \in SourceFiles({FullHeader}, 1, {FALSE}) :
              Len(f.rows) = 1 /\ f.rows[1][2] = "LRU Cache"

\* a tree with files a, b, n for the first pattern and c for the second
Tree(a, b, n, c) ==
    LET at == [p \in Paths |->
                 CASE p = <<<<"Alpha">>, patterns[1]>> -> a
                   [] p = <<<<"Beta">>, patterns[1]>> -> b
                   [] p = <<<<"Alpha", "Beta">>, patterns[1]>> -> n
                   [] p = <<<<"Alpha">>, patterns[2]>> -> c
                   [] OTHER -> NoFile]
    IN  [p \in {q \in Paths : at[q].exists} |-> at[p]]

Args == {NoArg, Inline(<<"">>), Inline(<<"", " ">>), Inline(<<"Alpha">>),
         Inline(<<"Alpha", " Beta ">>), Inline(<<"Gamma">>), Inline(<<"*">>),
         FromFile(<<"Alpha">>), FromFile(<<"", " ">>)}

\* before the first statement of process_all, nothing written yet
Fresh ==
    /\ tie \in TieOrders
    /\ pc = [w \in {Main} |-> "start"]
    /\ todo = [w \in {Main} |-> << >>]
    /\ run = 1
    /\ allowed = None
    /\ out_folder = AllFolder
    /\ files = << >>
    /\ tmp_csv = NoFile
    /\ final_csv = NoFile
    /\ exit_code = -1
    /\ first_out = fs
    /\ interfered = [w \in {Main} |-> FALSE]

\* any argument, small files; only the first two patterns have any
Init ==
    /\ arg \in Args
    /\ \E a \in {NoFile} \cup SourceFiles({FullHeader}, MaxRows, {FALSE}),
          b, n \in {NoFile, OneRow} : fs = Tree(a, b, n, OneRow)
    /\ Fresh

Once == Start(Main) \/ MergeCsvFiles(Main) \/ MergeDuplicates(Main)
            \/ SortByCount(Main) \/ Copy(Main)

Next == Once \/ Rerun

Spec == Init /\ [][Next]_vars

\* one invocation; the first pattern's file under Alpha has any of the
\* three headers, and may fail part-way
InitData ==
    /\ arg \in {NoArg, Inline(<<"Alpha", " Beta ">>)}
    /\ \E a \in {NoFile} \cup SourceFiles({FullHeader, PartHeader, BareHeader}, MaxRows, BOOLEAN),
          b, c \in {NoFile, OneRow} : fs = Tree(a, b, NoFile, c)
    /\ Fresh

SpecData == InitData /\ [][Once]_vars

\* a deduplicated file an earlier pattern or invocation left behind
Leftover == CsvFile(HEADER_LIST \o <<"count">>,
                    <<<<"Easy", "Two Sum", "often", "half", "url", "Array", 1>>>>)

\* merge_duplicates called, for the first pattern, on any intermediate
\* file: any of the three headers, or no line at all
InitFatal ==
    /\ arg = NoArg
    /\ tie \in TieOrders
    /\ pc = [w \in {Main} |-> "dedup"]
    /\ todo = [w \in {Main} |-> patterns]
    /\ run = 1
    /\ allowed = None
    /\ out_folder = AllFolder
    /\ files = << >>
    /\ tmp_csv \in {CsvFile(<< >>, << >>)}
                    \cup SourceFiles({FullHeader, PartHeader, BareHeader}, MaxRows, {FALSE})
    /\ final_csv \in {NoFile, Leftover}
    /\ \E c \in {NoFile, OneRow}, d \in {NoFile, Leftover} :
          fs = IF d.exists
               THEN Write(Tree(NoFile, NoFile, NoFile, c), Dest(AllFolder, patterns[1]), d)
               ELSE Tree(NoFile, NoFile, NoFile, c)
    /\ exit_code = -1
    /\ first_out = fs
    /\ interfered = [w \in {Main} |-> FALSE]

Pass(w) == MergeCsvFiles(w) \/ MergeDuplicates(w) \/ SortByCount(w) \/ Copy(w)

SpecFatal == InitFatal /\ [][Pass(Main)]_vars

\* the passes of NumWorkers different patterns side by side, each one
\* pattern long, after process_all has set up allowed and the output folder
InitPar ==
    /\ arg = NoArg
    /\ tie \in TieOrders
    /\ pc = [w \in 1..NumWorkers |-> "merge"]
    /\ \E of \in [1..NumWorkers -> 1..Len(patterns)] :
          /\ \A v, w \in 1..NumWorkers : v < w => of[v] < of[w]
          /\ todo = [w \in 1..NumWorkers |-> <<patterns[of[w]]>>]
    /\ run = 1
    /\ allowed = None
    /\ out_folder = AllFolder
    /\ files = << >>
    /\ tmp_csv = NoFile
    /\ final_csv = NoFile
    /\ \E a \in {NoFile} \cup SourceFiles({FullHeader}, 1, {FALSE}), c \in {NoFile, OneRow} :
          fs = Tree(a, NoFile, NoFile, c)
    /\ exit_code = -1
    /\ first_out = fs
    /\ interfered = [w \in 1..NumWorkers |-> FALSE]

NextPar ==
    \/ \E w \in DOMAIN pc : MergeCsvFiles(w)
    \/ \E w \in DOMAIN pc : MergeDuplicates(w)
    \/ \E w \in DOMAIN pc : SortByCount(w)
    \/ \E w \in DOMAIN pc : Copy(w)

SpecPar == InitPar /\ [][NextPar]_vars

-----------------------------------------------------------------------------
(* What the claims speak of *)

\* process_all has parsed the argument in this or an earlier invocation
Started == pc[Main] # "start" \/ run > 1

\* the pattern whose file was copied last, when the pass is between two
\* patterns or at its end
JustCopied == pc[Main] \in {"merge", "done"} /\ Len(todo[Main]) < Len(patterns)

LastPattern == patterns[Len(patterns) - Len(todo[Main])]

\* a file of one header line and no data line
HeaderOnly(f, header) == f.exists /\ f.header = header /\ f.rows = << >>

\* a folder on the way to the file is named name
Under(path, names) == \E k \in 1..Len(path[1]) : path[1][k] \in names

-----------------------------------------------------------------------------
(* C1 -- Idempotence: when the script is run a second time on the unchanged
   inputs with the same argument, every destination file is, at the end of
   the second run, what it was at the end of the first. *)
C1_Idempotent ==
    (pc[Main] = "done" /\ run > 1) =>
        \A k \in 1..Len(patterns) :
            File(fs, <<<<out_folder>>, patterns[k]>>)
                = File(first_out, <<<<out_folder>>, patterns[k]>>)

(* C4 -- Filter scoping: with a non-empty allow-set, every file the
   Collector hands to the merge lies under a folder whose name is in the
   allow-set, so no row of another folder reaches an output. *)
C4_FilterScoping ==
    (Started /\ Truthy(allowed)) =>
        \A i \in 1..Len(files) : Under(files[i], allowed.names)

(* C5 -- Filter presence: whenever -c is supplied, the results go to the
   custom output folder and only files under the listed folders are
   collected, also when the argument lists no folder at all. *)
C5_FilterPresence ==
    (Started /\ arg.kind # "none") =>
        /\ out_folder = CustomFolder
        /\ \A i \in 1..Len(files) : Under(files[i], parse_companies_arg(arg).names)

(* C8 -- Empty match: when the Collector finds no file for a pattern, the
   merged file is the fixed header alone, the deduplicated and sorted file
   is that header with count and no row, the destination file of the
   pattern exists and is that same header-only file, the process never
   exits with an error, it goes on until the last
   pattern is copied (the one check that could stop it, for the Title
   column of the merged file, passes), and it then exits with 0. *)
C8_EmptyMatch ==
    /\ (pc[Main] \in {"dedup", "sort", "copy"} /\ files = << >>) =>
            HeaderOnly(tmp_csv, HEADER_LIST)
    /\ (pc[Main] \in {"sort", "copy"} /\ files = << >>) =>
            HeaderOnly(final_csv, HEADER_LIST \o <<"count">>)
    /\ (JustCopied /\ files = << >>) =>
            HeaderOnly(File(fs, <<<<out_folder>>, LastPattern>>), HEADER_LIST \o <<"count">>)
    /\ exit_code \in {-1, 0}
    /\ pc[Main] # "exited"
    /\ (pc[Main] = "dedup") => HasTitle(tmp_csv)
    /\ (pc[Main] = "done") => exit_code = 0

\* the last pattern matched no file, and the run has ended
C8_Witness ==
    /\ pc[Main] = "done"
    /\ files = << >>
    /\ exit_code = 0
    /\ HeaderOnly(File(fs, <<<<out_folder>>, patterns[Len(patterns)]>>),
                  HEADER_LIST \o <<"count">>)
    /\ \E k \in 1..Len(patterns) : File(fs, <<<<out_folder>>, patterns[k]>>).rows # << >>

-----------------------------------------------------------------------------
(* C2 -- Dedup correctness: the file merge_duplicates writes has the
   input's header followed by count, exactly one row for every Title of
   the merged file and no other row; the row's count is the number of
   merged rows of that Title (so at least 1) and its other cells are those
   of the first merged row of that Title. *)
C2_DedupCorrect ==
    pc[Main] = "sort" =>
        LET in == tmp_csv.rows
            out == final_csv.rows
            n == Len(HEADER_LIST)
            titleAt == CHOOSE k \in 1..n : HEADER_LIST[k] = "Title"
            Occ(t) == {i \in 1..Len(in) : in[i][titleAt] = t}
        IN  /\ final_csv.header = tmp_csv.header \o <<"count">>
            /\ \A i \in 1..Len(in) :
                   Cardinality({k \in 1..Len(out) : out[k][titleAt] = in[i][titleAt]}) = 1
            /\ \A k \in 1..Len(out) :
                   LET occ == Occ(out[k][titleAt])
                   IN  /\ occ # {}
                       /\ Len(out[k]) = n + 1
                       /\ out[k][n + 1] = Cardinality(occ)
                       /\ out[k][n + 1] >= 1
                       /\ \A c \in 1..n :
                              out[k][c] = in[CHOOSE i \in occ : \A j \in occ : i <= j][c]

\* two merged rows share a Title and differ in Difficulty, and the title's
\* row has count 2 or more
C2_Witness ==
    /\ pc[Main] = "sort"
    /\ \E i, j \in 1..Len(tmp_csv.rows) :
          /\ i < j
          /\ tmp_csv.rows[i][2] = tmp_csv.rows[j][2]
          /\ tmp_csv.rows[i][1] # tmp_csv.rows[j][1]
    /\ \E k \in 1..Len(final_csv.rows) : final_csv.rows[k][Len(HEADER_LIST) + 1] >= 2

(* C3 -- Stable descending sort: sort_by_count leaves the rows in
   non-increasing order of count, and rows of equal count in the order the
   deduplicated file had them. *)
C3_StableSort ==
    [][(pc[Main] = "sort" /\ pc'[Main] = "copy") =>
          LET pre == final_csv.rows
              post == final_csv'.rows
              n == Len(pre)
              countAt == Len(final_csv.header)
          IN  /\ Len(post) = n
              /\ \A a, b \in 1..n : a < b => post[a][countAt] >= post[b][countAt]
              /\ \E s \in Perms(n) :
                    /\ \A a \in 1..n : post[a] = ReadWrite(final_csv.header, pre[s[a]])
                    /\ \A a, b \in 1..n :
                          (a < b /\ post[a][countAt] = post[b][countAt]) => s[a] < s[b]
      ]_vars

(* C6 -- Per-file failure policy: a source file whose reading raises, on
   open or part-way, adds no row to the merged file; the rows of every
   other file are there, in the order of the sorted paths, and the exit
   code is untouched. *)
C6_BadFileSkipped ==
    pc[Main] = "dedup" =>
        /\ tmp_csv.rows =
              Flatten([i \in 1..Len(files) |->
                          IF File(fs, files[i]).bad THEN << >>
                          ELSE Appended(File(fs, files[i]))])
        /\ exit_code = -1

\* the rows of the files merged, each with the header of its file
SourceRows ==
    Flatten([i \in 1..Len(files) |->
                [j \in 1..Len(File(fs, files[i]).rows) |->
                    [header |-> File(fs, files[i]).header,
                     cells |-> File(fs, files[i]).rows[j]]]])

(* C9 -- Projection correctness: the merged file starts with HEADER_LIST;
   it has one row of six cells for every source row read, in order, and
   each cell is the source row's cell under the column of that name,
   wherever that column stands in the source, or the empty string when the
   source has no such column; the deduplicated files and every destination
   file have the columns of HEADER_LIST and count, and no other. *)
C9_Projection ==
    /\ pc[Main] = "dedup" =>
          /\ tmp_csv.header = HEADER_LIST
          /\ Len(tmp_csv.rows) = Len(SourceRows)
          /\ \A r \in 1..Len(SourceRows) :
                /\ Len(tmp_csv.rows[r]) = Len(HEADER_LIST)
                /\ \A k \in 1..Len(HEADER_LIST) :
                      LET src == SourceRows[r]
                      IN  IF HEADER_LIST[k] \in Range(src.header)
                          THEN \E at \in 1..Len(src.header) :
                                  /\ src.header[at] = HEADER_LIST[k]
                                  /\ tmp_csv.rows[r][k] = src.cells[at]
                          ELSE tmp_csv.rows[r][k] = ""
    /\ \A f \in {final_csv} \cup {File(fs, <<<<d>>, patterns[k]>>) :
                                   d \in {AllFolder, CustomFolder}, k \in 1..Len(patterns)} :
          f.exists =>
              /\ f.header = HEADER_LIST \o <<"count">>
              /\ \A r \in 1..Len(f.rows) : Len(f.rows[r]) = Len(f.header)

\* a source with its columns out of order, four missing and one unknown
\* has been merged
C9_Witness ==
    /\ pc[Main] = "dedup"
    /\ \E i \in 1..Len(files) :
          /\ File(fs, files[i]).header = PartHeader
          /\ File(fs, files[i]).rows # << >>
    /\ \E r \in 1..Len(tmp_csv.rows) :
          tmp_csv.rows[r][1] = "Hard" /\ tmp_csv.rows[r][3] = ""

(* C7 -- Fatal precondition: when the intermediate file has a header line
   without Title, merge_duplicates ends the process with exit code 1,
   final_output.csv and every file in the output folder stay as they were,
   and nothing runs after that. *)
C7_Fatal ==
    [][/\ pc[Main] # "exited"
       /\ (pc[Main] = "dedup" /\ tmp_csv.header # << >>
                              /\ "Title" \notin Range(tmp_csv.header)) =>
              /\ pc'[Main] = "exited"
              /\ exit_code' = 1
              /\ final_csv' = final_csv
              /\ fs' = fs
      ]_vars

\* the process has exited on a header without Title, with an earlier
\* result still in place
C7_Witness ==
    /\ pc[Main] = "exited"
    /\ exit_code = 1
    /\ "Title" \notin Range(tmp_csv.header)
    /\ tmp_csv.rows # << >>
    /\ final_csv = Leftover
    /\ File(fs, Dest(AllFolder, patterns[1])) = Leftover

\* what the script, run on the tree as it was, writes for a pattern
Sequential(pattern) ==
    sort_by_count(
        merge_duplicates(merge_csv_files(first_out, Collect(first_out, pattern, allowed))),
        tie)

(* C10 -- Pattern independence, as stated: whatever the interleaving of
   the passes' steps, each destination file is the one the sequential
   script writes for its pattern. *)
C10_AnyInterleaving ==
    \A k \in 1..Len(patterns) :
        <<<<out_folder>>, patterns[k]>> \in DOMAIN fs =>
            fs[<<<<out_folder>>, patterns[k]>>] = Sequential(patterns[k])

(* C10 -- Pattern independence, amended: the passes write different
   destination files but share temp_output.csv and final_output.csv; a
   pass writes the file the sequential script writes for its pattern, and
   no other destination file, when no other pass wrote an intermediate
   file between this pass's write of it and its read. *)
C10_Uninterfered ==
    [][\A w \in DOMAIN pc :
          (pc[w] = "copy" /\ pc'[w] # "copy" /\ ~interfered[w]) =>
              /\ fs' = Write(fs, <<<<out_folder>>, Pattern(w)>>, Sequential(Pattern(w)))
      ]_vars

\* a pass has ended undisturbed, with rows in a destination file, while
\* another pass lost an intermediate file
C10_Witness ==
    \E v, w \in DOMAIN pc :
        /\ pc[w] = "done" /\ ~interfered[w]
        /\ interfered[v]
        /\ \E k \in 1..Len(patterns) : File(fs, <<<<out_folder>>, patterns[k]>>).rows # << >>

=============================================================================
